---- MODULE Spec2Model ----
(***************************************************************************)
(* Model of scripts/analysis_data_export.py: the per-core window tracker   *)
(* (CoreStateAnalyzer) and the run aggregator                              *)
(* (CoreStateAtBranchEventAnalyzer).                                       *)
(*                                                                         *)
(* The simulator (module sim) is the environment: it calls setup once,     *)
(* then delivers branch events and periodic ticks, then calls              *)
(* hook_sim_end.  What the script reads from it (sim.stats.time(),         *)
(* sim.stats.get(...), sim.dvfs.get_core_state(...), sim.config.ncores)    *)
(* is drawn from small sets.                                               *)
(***************************************************************************)
EXTENDS Integers, Sequences, FiniteSets, TLC

(***************************************************************************)
(* Bounds of the model.                                                    *)
(***************************************************************************)
MaxCores == 2        \* sim.config.ncores ranges over 0..MaxCores
MaxTime == 3         \* times delivered by the simulator range over 0..MaxTime
MaxBranches == 2     \* branch events delivered in one run
MaxTicks == 3        \* periodic ticks delivered in one run
MaxIp == 1           \* branch addresses range over 1..MaxIp
MaxEnds == 2         \* calls of hook_sim_end in one run
MaxSummaryRecords == 2  \* records of a combined sequence handed to the summary
MaxSummaryIp == 2    \* their branch addresses range over 1..MaxSummaryIp
MaxSamples == 2      \* samples of one of these records
ScenarioTicks == 150 \* ticks of the one-branch run
LiveMaxTime == 3     \* time horizon of the runs whose ticks keep coming
LiveMaxCores == 1    \* cores of these runs

(***************************************************************************)
(* Program constants.                                                      *)
(***************************************************************************)
RUNNING == 0
IDLE == 5
\* sim.util.Time.US, the number of simulator time units in a microsecond.
\* The simulator counts femtoseconds; the model counts half microseconds,
\* which keeps the conversion of line 82 a real multiplication.
US == 2
DefaultObservationWindow == 100
DefaultSamplingPeriod == 1

None == "None"

CoreStates == {RUNNING, IDLE}
Times == 0..MaxTime
CoreIds == 0..MaxCores
Ips == 1..MaxIp
Deltas == {0, 1}                \* a zero-width tick and a tick that advanced
InstructionCounts == {0}        \* what sim.stats.get answers

VARIABLES
  pc,                    \* "constructed", "running" (after setup), "ended"
  observation_window,    \* self.observation_window of the aggregator
  sampling_period,       \* self.sampling_period of the aggregator
  total_branches,        \* self.total_branches
  core_analyzers,        \* self.core_analyzers: core_id -> CoreStateAnalyzer
  all_completed_records, \* the combined sequence hook_sim_end builds
  state_patterns_file,   \* rows of core_state_patterns.csv, without the header
  pattern_stats,         \* the dict generate_analysis_summary builds
  analysis_summary_file, \* rows of state_pattern_summary.csv, without the header
  call,                  \* the hook the simulator invoked last, with its arguments
  raised,                \* the exception that escaped a hook, None if none did
  created,               \* history: per core, the event ids assigned, in delivery order
  rejected,              \* history: branch events that named no tracker
  ticks,                 \* history: ticks delivered
  ends                   \* history: calls of hook_sim_end

vars == <<pc, observation_window, sampling_period, total_branches, core_analyzers,
          all_completed_records, state_patterns_file, pattern_stats,
          analysis_summary_file, call, raised, created, rejected, ticks, ends>>

\* What hook_sim_end writes.
outputs == <<all_completed_records, state_patterns_file, pattern_stats,
             analysis_summary_file>>

(***************************************************************************)
(* Python helpers.                                                         *)
(***************************************************************************)
\* A dict is a sequence of [key, value] entries in insertion order.
DictKeys(d) == [i \in 1..Len(d) |-> d[i].key]

DictHas(d, k) == \E i \in 1..Len(d) : d[i].key = k

DictGet(d, k) == d[CHOOSE i \in 1..Len(d) : d[i].key = k].value

DictValues(d) == [i \in 1..Len(d) |-> d[i].value]

\* d[k] = v: an existing key keeps its position, a new key goes last.
DictSet(d, k, v) ==
  IF DictHas(d, k)
  THEN [i \in 1..Len(d) |-> IF d[i].key = k THEN [key |-> k, value |-> v] ELSE d[i]]
  ELSE Append(d, [key |-> k, value |-> v])

\* del d[k]
DictDel(d, k) == SelectSeq(d, LAMBDA e : e.key # k)

\* s.split(':') on a string given as its sequence of characters.
RECURSIVE Split(_, _)
Split(s, cur) ==
  IF s = <<>> THEN <<cur>>
  ELSE IF Head(s) = ":" THEN <<cur>> \o Split(Tail(s), <<>>)
  ELSE Split(Tail(s), Append(cur, Head(s)))

DigitValue(ch) ==
  CASE ch = "0" -> 0 [] ch = "1" -> 1 [] ch = "2" -> 2 [] ch = "3" -> 3
    [] ch = "4" -> 4 [] ch = "5" -> 5 [] ch = "6" -> 6 [] ch = "7" -> 7
    [] ch = "8" -> 8 [] ch = "9" -> 9

RECURSIVE Digits(_, _)
Digits(s, acc) ==
  IF s = <<>> THEN acc ELSE Digits(Tail(s), 10 * acc + DigitValue(Head(s)))

\* int(s) for a decimal numeral with an optional sign.
Int_(s) ==
  IF Head(s) = "-" THEN 0 - Digits(Tail(s), 0)
  ELSE IF Head(s) = "+" THEN Digits(Tail(s), 0)
  ELSE Digits(s, 0)

\* dict(enumerate(tokens)).get(i, None)
ArgGet(tokens, i) == IF i + 1 <= Len(tokens) THEN tokens[i + 1] ELSE None

\* int(x or default): None and the empty string are falsy.
IntOr(x, default) == IF x = None \/ x = <<>> THEN default ELSE Int_(x)

(***************************************************************************)
(* CoreStateAnalyzer                                                       *)
(***************************************************************************)
\* Lines 41-49.
CoreStateAnalyzer(core_id, window, period) ==
  [ core_id            |-> core_id,
    observation_window |-> window,
    sampling_period    |-> period,
    active_records     |-> <<>>,
    completed_records  |-> <<>>,
    next_event_id      |-> 1 ]

\* The id taken from the number of active records instead of the counter.
NewEventId_Reuse(self) == Len(self.active_records) + 1

\* Line 53: the id of the new record.
NewEventId(self) == self.next_event_id

\* Line 54: the counter after it.
NextEventIdAfter(self) == self.next_event_id + 1

\* Lines 56-64.
NewRecord(self, event_id, ip, actual, time, instruction_count) ==
  [ event_id          |-> event_id,
    core_id           |-> self.core_id,
    ip                |-> ip,
    branch_taken      |-> actual,
    start_time        |-> time,
    instruction_count |-> instruction_count,
    states            |-> <<>> ]

\* Lines 51-66.  time is what sim.stats.time() answers, instruction_count what
\* sim.stats.get answers; predicted and indirect are not used.
record_branch_event(self, ip, actual, time, instruction_count) ==
  LET event_id == NewEventId(self)
      bumped   == [self EXCEPT !.next_event_id = NextEventIdAfter(self)]
      record   == NewRecord(bumped, event_id, ip, actual, time, instruction_count)
  IN  [bumped EXCEPT !.active_records = DictSet(@, event_id, record)]

\* Line 78.
ElapsedTime(record, time) == time - record.start_time

\* The new sample put in front of the earlier ones.
AppendSample_Prepend(record, elapsed_time, current_state) ==
  [record EXCEPT !.states = <<<<elapsed_time, current_state>>>> \o @]

\* Line 80.
AppendSample(record, elapsed_time, current_state) ==
  [record EXCEPT !.states = Append(@, <<elapsed_time, current_state>>)]

\* Line 82 never finding the window over.
WindowExpired_Never(self, elapsed_time) == FALSE

\* The comparison of line 82 with >= for >.
WindowExpired_AtLeast(self, elapsed_time) ==
  elapsed_time >= self.observation_window * US

\* The comparison of line 82 without the conversion to simulator time.
WindowExpired_NoUnit(self, elapsed_time) == elapsed_time > self.observation_window

\* Line 82.
WindowExpired(self, elapsed_time) == elapsed_time > self.observation_window * US

\* Lines 83-84 without the del.
CompleteRecord_KeepActive(self, event_id, record) ==
  [self EXCEPT !.completed_records = Append(@, record)]

\* Lines 83-84 without the append.
CompleteRecord_DropRecord(self, event_id, record) ==
  [self EXCEPT !.active_records = DictDel(@, event_id)]

\* Lines 83-84.
CompleteRecord(self, event_id, record) ==
  [self EXCEPT !.completed_records = Append(@, record),
               !.active_records = DictDel(@, event_id)]

\* One pass of the loop body, lines 77-84.
SampleRecord(self, event_id, time, current_state) ==
  LET record       == DictGet(self.active_records, event_id)
      elapsed_time == ElapsedTime(record, time)
      sampled      == AppendSample(record, elapsed_time, current_state)
      stored       == [self EXCEPT !.active_records = DictSet(@, event_id, sampled)]
  IN  IF WindowExpired(stored, elapsed_time)
      THEN CompleteRecord(stored, event_id, sampled)
      ELSE stored

\* The loop run over the live mapping instead of a snapshot of its keys: the key
\* after a deleted one is passed over.
RECURSIVE SampleLoop_SkipAfterDelete(_, _, _, _)
SampleLoop_SkipAfterDelete(self, keys, time, current_state) ==
  IF keys = <<>> THEN self
  ELSE LET after  == SampleRecord(self, Head(keys), time, current_state)
           closed == ~DictHas(after.active_records, Head(keys))
           rest   == IF closed /\ Len(keys) > 1 THEN Tail(Tail(keys)) ELSE Tail(keys)
       IN  SampleLoop_SkipAfterDelete(after, rest, time, current_state)

\* Lines 76-84: the loop over the snapshot list(self.active_records.keys()).
RECURSIVE SampleLoop(_, _, _, _)
SampleLoop(self, keys, time, current_state) ==
  IF keys = <<>> THEN self
  ELSE SampleLoop(SampleRecord(self, Head(keys), time, current_state),
                  Tail(keys), time, current_state)

\* Line 71 without the test.
ZeroWidthTick_Never(time_delta) == FALSE

\* Line 71.
ZeroWidthTick(time_delta) == time_delta = 0

\* Lines 69-84.  current_state is what sim.dvfs.get_core_state(self.core_id) answers.
collect_state_sample(self, time, time_delta, current_state) ==
  IF ZeroWidthTick(time_delta) THEN self
  ELSE SampleLoop(self, DictKeys(self.active_records), time, current_state)

(***************************************************************************)
(* CoreStateAtBranchEventAnalyzer                                          *)
(***************************************************************************)
\* The argument strings the run is started with (None: no argument).
ArgStrings ==
  { None,
    <<"1">>,
    <<"0">>,
    <<"-", "1", ":", "0">> }

\* Lines 100-106.
ParseArgs(args) ==
  LET tokens == Split(IF args = None THEN <<>> ELSE args, <<>>)
  IN  [ observation_window |-> IntOr(ArgGet(tokens, 0), DefaultObservationWindow),
        sampling_period    |-> IntOr(ArgGet(tokens, 1), DefaultSamplingPeriod) ]

\* Lines 113-120: range(num_cores) is empty for num_cores <= 0.
MakeAnalyzers(num_cores, window, period) ==
  [core_id \in 0..(num_cores - 1) |-> CoreStateAnalyzer(core_id, window, period)]

\* Line 149.
KnownCore(analyzers, core_id) == core_id \in DOMAIN analyzers

\* The counter incremented inside the membership test of line 149.
CountBranch_KnownOnly(n, analyzers, core_id) ==
  IF KnownCore(analyzers, core_id) THEN n + 1 ELSE n

\* Line 148: total_branches after a branch event.
CountBranch(n, analyzers, core_id) == n + 1

\* An event on an unknown core handed to the tracker core_id modulo the core count.
DeliverBranch_Wrap(analyzers, core_id, ip, actual, time, instruction_count) ==
  IF DOMAIN analyzers = {} THEN analyzers
  ELSE LET c == core_id % Cardinality(DOMAIN analyzers)
       IN  [analyzers EXCEPT ![c] =
              record_branch_event(@, ip, actual, time, instruction_count)]

\* Lines 149-150: core_analyzers after a branch event.
DeliverBranch(analyzers, core_id, ip, actual, time, instruction_count) ==
  IF KnownCore(analyzers, core_id)
  THEN [analyzers EXCEPT ![core_id] =
          record_branch_event(@, ip, actual, time, instruction_count)]
  ELSE analyzers

\* Lines 160-162 without the loop over the active records.
TrackerRecords_CompletedOnly(analyzer) == analyzer.completed_records

\* Lines 160-162 with the active records taken before the completed ones.
TrackerRecords_ActiveFirst(analyzer) ==
  DictValues(analyzer.active_records) \o analyzer.completed_records

\* Lines 160-162: the completed records of a tracker, then its active ones.
TrackerRecords(analyzer) ==
  analyzer.completed_records \o DictValues(analyzer.active_records)

\* Lines 157-162: the trackers in the order setup inserted them, range(num_cores).
RECURSIVE CombineFrom(_, _)
CombineFrom(analyzers, core_id) ==
  IF core_id \notin DOMAIN analyzers THEN <<>>
  ELSE TrackerRecords(analyzers[core_id]) \o CombineFrom(analyzers, core_id + 1)

CombineRecords(analyzers) == CombineFrom(analyzers, 0)

NoCall == [hook |-> "__init__", core_id |-> -1, time |-> 0, time_delta |-> 0]

\* Lines 89-96.
Init ==
  /\ pc = "constructed"
  /\ observation_window = None
  /\ sampling_period = None
  /\ total_branches = 0
  /\ core_analyzers = <<>>
  /\ all_completed_records = <<>>
  /\ state_patterns_file = <<>>
  /\ pattern_stats = <<>>
  /\ analysis_summary_file = <<>>
  /\ call = NoCall
  /\ raised = None
  /\ created = <<>>
  /\ rejected = 0
  /\ ticks = 0
  /\ ends = 0

\* Lines 98-132.  num_cores is sim.config.ncores.
setup(args, num_cores) ==
  /\ pc = "constructed"
  /\ LET cfg == ParseArgs(args)
     IN  /\ observation_window' = cfg.observation_window
         /\ sampling_period' = cfg.sampling_period
         /\ core_analyzers' =
              MakeAnalyzers(num_cores, cfg.observation_window, cfg.sampling_period)
  /\ created' = [core_id \in 0..(num_cores - 1) |-> <<>>]
  /\ pc' = "running"
  /\ call' = [NoCall EXCEPT !.hook = "setup"]
  /\ UNCHANGED <<total_branches, outputs, raised, rejected, ticks, ends>>

\* The tracker asking for the state of the first core instead of its own.
get_core_state_OfCoreZero(current_state, core_id) == current_state[0]

\* Line 74: sim.dvfs.get_core_state(self.core_id), where current_state[c] is the
\* state of core c during this tick.
get_core_state(current_state, core_id) == current_state[core_id]

\* Lines 140-143.
hook_periodic(time, time_delta, current_state) ==
  /\ pc = "running"
  /\ core_analyzers' =
       [c \in DOMAIN core_analyzers |->
          collect_state_sample(core_analyzers[c], time, time_delta,
                               get_core_state(current_state, core_analyzers[c].core_id))]
  /\ ticks' = ticks + 1
  /\ call' = [hook |-> "hook_periodic", core_id |-> -1, time |-> time,
              time_delta |-> time_delta]
  /\ UNCHANGED <<pc, observation_window, sampling_period, total_branches,
                 outputs, raised, created, rejected, ends>>

\* The id of the record a branch event put into tracker `after`, whose state
\* before the event was `before`.
CreatedEventId(before, after) ==
  DictGet(after.active_records, NewEventId(before)).event_id

\* Lines 145-150.
hook_branch_predictor(core_id, ip, actual, time, instruction_count) ==
  /\ pc = "running"
  /\ total_branches' = CountBranch(total_branches, core_analyzers, core_id)
  /\ core_analyzers' =
       DeliverBranch(core_analyzers, core_id, ip, actual, time, instruction_count)
  /\ created' =
       [c \in DOMAIN created |->
          IF c = core_id
          THEN Append(created[c], CreatedEventId(core_analyzers[c], core_analyzers'[c]))
          ELSE created[c]]
  /\ rejected' = IF core_id \in DOMAIN created THEN rejected ELSE rejected + 1
  /\ call' = [hook |-> "hook_branch_predictor", core_id |-> core_id, time |-> time,
              time_delta |-> 0]
  /\ UNCHANGED <<pc, observation_window, sampling_period, outputs, raised, ticks,
                 ends>>

\* hex(n) for n >= 0, as its sequence of characters.
HexDigit(d) ==
  CASE d = 0 -> "0" [] d = 1 -> "1" [] d = 2 -> "2" [] d = 3 -> "3"
    [] d = 4 -> "4" [] d = 5 -> "5" [] d = 6 -> "6" [] d = 7 -> "7"
    [] d = 8 -> "8" [] d = 9 -> "9" [] d = 10 -> "a" [] d = 11 -> "b"
    [] d = 12 -> "c" [] d = 13 -> "d" [] d = 14 -> "e" [] d = 15 -> "f"

RECURSIVE HexDigits(_)
HexDigits(n) ==
  IF n < 16 THEN <<HexDigit(n)>> ELSE Append(HexDigits(n \div 16), HexDigit(n % 16))

Hex(n) == <<"0", "x">> \o HexDigits(n)

\* Line 170: the state of every sample, in order.
StatesOf(record) == [j \in 1..Len(record.states) |-> record.states[j][2]]

\* Lines 169-178: the row of a record.
PatternRow(record) ==
  [ event_id          |-> record.event_id,
    instruction_count |-> record.instruction_count,
    start_time        |-> record.start_time,
    core_id           |-> record.core_id,
    ip                |-> Hex(record.ip),
    branch_taken      |-> record.branch_taken,
    states            |-> StatesOf(record) ]

PatternRows(all_records) == [i \in 1..Len(all_records) |-> PatternRow(all_records[i])]

\* Line 194: the 0-based positions of the IDLE samples, ascending.
RECURSIVE IdlePositionsFrom(_, _)
IdlePositionsFrom(states, i) ==
  IF i >= Len(states) THEN <<>>
  ELSE (IF states[i + 1] = IDLE THEN <<i>> ELSE <<>>) \o IdlePositionsFrom(states, i + 1)

IdlePositions(states) == IdlePositionsFrom(states, 0)

\* Line 196 without the test: every record is counted.
HasIdle_Always(idle_positions) == TRUE

\* Line 196: a non-empty list is truthy.
HasIdle(idle_positions) == idle_positions # <<>>

\* Lines 190-207: pattern_stats after one record.
UpdateStats(stats, record) ==
  LET ip             == Hex(record.ip)
      idle_positions == IdlePositions(StatesOf(record))
      taken          == IF record.branch_taken THEN 1 ELSE 0
  IN  IF ~HasIdle(idle_positions) THEN stats
      ELSE IF ~DictHas(stats, ip)
      THEN DictSet(stats, ip, [ count              |-> 1,
                                idle_positions     |-> idle_positions,
                                branch_taken_count |-> taken ])
      ELSE LET old == DictGet(stats, ip)
           IN  DictSet(stats, ip,
                       [ count              |-> old.count + 1,
                         idle_positions     |-> old.idle_positions \o idle_positions,
                         branch_taken_count |-> old.branch_taken_count + taken ])

\* Lines 186-207.
RECURSIVE PatternStatsFrom(_, _)
PatternStatsFrom(all_records, stats) ==
  IF all_records = <<>> THEN stats
  ELSE PatternStatsFrom(Tail(all_records), UpdateStats(stats, Head(all_records)))

PatternStats(all_records) == PatternStatsFrom(all_records, <<>>)

RECURSIVE SumSeq(_)
SumSeq(s) == IF s = <<>> THEN 0 ELSE Head(s) + SumSeq(Tail(s))

\* Line 217 with the record's share of samples taken from the sampling period too.
SamplesPerRecord_ByPeriod(window, period) == window \div period

\* Line 216: total_samples_per_record.
SamplesPerRecord(window, period) == window

\* Lines 213-220: the row of an ip.  A quotient is kept as numerator and
\* denominator; the file holds it rounded to two decimals.
SummaryRow(ip, stats, window, period) ==
  [ ip                 |-> ip,
    count              |-> stats.count,
    avg_position       |-> [num |-> SumSeq(stats.idle_positions),
                            den |-> Len(stats.idle_positions)],
    idle_percentage    |-> [num |-> 100 * Len(stats.idle_positions),
                            den |-> stats.count * SamplesPerRecord(window, period)],
    branch_taken_ratio |-> [num |-> stats.branch_taken_count, den |-> stats.count] ]

\* Line 217: the division raises ZeroDivisionError when count * window is 0.
SummaryDividesByZero(stats, window, period) ==
  \E i \in 1..Len(stats) : stats[i].value.count * SamplesPerRecord(window, period) = 0

\* Lines 210-220: the rows written before the loop ends or raises.
RECURSIVE SummaryRowsFrom(_, _, _)
SummaryRowsFrom(stats, window, period) ==
  IF stats = <<>> THEN <<>>
  ELSE IF Head(stats).value.count * SamplesPerRecord(window, period) = 0 THEN <<>>
  ELSE <<SummaryRow(Head(stats).key, Head(stats).value, window, period)>>
         \o SummaryRowsFrom(Tail(stats), window, period)

\* Lines 183-223: what the call leaves behind.
generate_analysis_summary(all_records) ==
  /\ pattern_stats' = PatternStats(all_records)
  /\ analysis_summary_file' =
       SummaryRowsFrom(pattern_stats', observation_window, sampling_period)
  /\ raised' = IF SummaryDividesByZero(pattern_stats', observation_window,
                                       sampling_period)
               THEN "ZeroDivisionError"
               ELSE None

\* The combined list aliased to the tracker's own completed_records, so that
\* appending the active records to it changes the tracker.
TrackerAfterSimEnd_Aliased(analyzer) ==
  [analyzer EXCEPT !.completed_records = @ \o DictValues(analyzer.active_records)]

\* Lines 157-162: extend and append act on the fresh list of line 154; the
\* tracker's own mapping and log are only read.
TrackerAfterSimEnd(analyzer) == analyzer

\* Lines 152-181.  The simulator calls it at the end of the run; a second call
\* finds the trackers as the first left them.
hook_sim_end ==
  /\ pc \in {"running", "ended"}
  /\ all_completed_records' = CombineRecords(core_analyzers)
  /\ state_patterns_file' = PatternRows(all_completed_records')
  /\ generate_analysis_summary(all_completed_records')
  /\ pc' = "ended"
  /\ ends' = ends + 1
  /\ core_analyzers' =
       [c \in DOMAIN core_analyzers |-> TrackerAfterSimEnd(core_analyzers[c])]
  /\ call' = [call EXCEPT !.hook = "hook_sim_end", !.core_id = -1]
  /\ UNCHANGED <<observation_window, sampling_period, total_branches, created,
                 rejected, ticks>>

\* The simulator's clock never goes back: a delivery is not earlier than the last one.
LaterTimes == {t \in Times : t >= call.time}

Next ==
  \/ \E args \in ArgStrings, num_cores \in 0..MaxCores : setup(args, num_cores)
  \/ /\ ticks < MaxTicks
     /\ \E time \in LaterTimes, time_delta \in Deltas,
           current_state \in [DOMAIN core_analyzers -> CoreStates] :
          hook_periodic(time, time_delta, current_state)
  \/ /\ total_branches < MaxBranches
     /\ \E core_id \in CoreIds, ip \in Ips, actual \in BOOLEAN, time \in LaterTimes,
           instruction_count \in InstructionCounts :
          hook_branch_predictor(core_id, ip, actual, time, instruction_count)
  \/ ends < MaxEnds /\ hook_sim_end

Spec == Init /\ [][Next]_vars

(***************************************************************************)
(* generate_analysis_summary on its own: the run is at line 180, with a    *)
(* combined sequence drawn from a bounded set.  Record i was opened on     *)
(* core i-1 under the default configuration, after which MaxSamples ticks  *)
(* came; a record with n samples was opened n ticks before the end, and    *)
(* no window has closed.                                                   *)
(***************************************************************************)
SampleStates == UNION {[1..n -> CoreStates] : n \in 0..MaxSamples}

SummaryRecord(core_id, ip, actual, states) ==
  [ NewRecord(CoreStateAnalyzer(core_id, DefaultObservationWindow,
                                DefaultSamplingPeriod),
              1, ip, actual, MaxSamples - Len(states), 0)
    EXCEPT !.states = [j \in 1..Len(states) |-> <<j, states[j]>>] ]

SummaryInputs ==
  UNION {[0..(n - 1) -> [ip : 1..MaxSummaryIp, actual : BOOLEAN, states : SampleStates]]
           : n \in 0..MaxSummaryRecords}

SummaryTracker(core_id, input) ==
  [ CoreStateAnalyzer(core_id, DefaultObservationWindow, DefaultSamplingPeriod)
    EXCEPT !.next_event_id = 2,
           !.active_records =
             <<[key |-> 1,
                value |-> SummaryRecord(core_id, input.ip, input.actual, input.states)]>> ]

SummaryInit ==
  \E inputs \in SummaryInputs :
    /\ pc = "combined"
    /\ observation_window = DefaultObservationWindow
    /\ sampling_period = DefaultSamplingPeriod
    /\ total_branches = Cardinality(DOMAIN inputs)
    /\ core_analyzers = [c \in DOMAIN inputs |-> SummaryTracker(c, inputs[c])]
    /\ all_completed_records = CombineRecords(core_analyzers)
    /\ state_patterns_file = PatternRows(all_completed_records)
    /\ pattern_stats = <<>>
    /\ analysis_summary_file = <<>>
    /\ call = [NoCall EXCEPT !.hook = "hook_sim_end", !.time = MaxSamples]
    /\ raised = None
    /\ created = [c \in DOMAIN inputs |-> <<1>>]
    /\ rejected = 0
    /\ ticks = MaxSamples
    /\ ends = 0

\* Line 180 and the return of hook_sim_end.
SummaryStep ==
  /\ pc = "combined"
  /\ generate_analysis_summary(all_completed_records)
  /\ pc' = "ended"
  /\ ends' = ends + 1
  /\ UNCHANGED <<observation_window, sampling_period, total_branches, core_analyzers,
                 all_completed_records, state_patterns_file, call, created, rejected,
                 ticks>>

SummaryNext == SummaryStep

SpecSummary == SummaryInit /\ [][SummaryNext]_vars

(***************************************************************************)
(* One run: default configuration (window 100 us, period 1 us), one core,  *)
(* one branch event at time 0, then ScenarioTicks ticks one sampling       *)
(* period apart (line 128: sampling_period * Time.US), the core IDLE at    *)
(* each, then the end of the simulation.                                   *)
(***************************************************************************)
ScenarioSetup == setup(None, 1)

ScenarioBranch ==
  /\ total_branches = 0
  /\ \E ip \in Ips, actual \in BOOLEAN : hook_branch_predictor(0, ip, actual, 0, 0)

ScenarioTick ==
  /\ total_branches = 1
  /\ ticks < ScenarioTicks
  /\ hook_periodic((ticks + 1) * sampling_period * US, sampling_period * US,
                   [c \in DOMAIN core_analyzers |-> IDLE])

ScenarioEnd ==
  /\ ticks = ScenarioTicks
  /\ ends = 0
  /\ hook_sim_end

ScenarioNext == ScenarioSetup \/ ScenarioBranch \/ ScenarioTick \/ ScenarioEnd

SpecScenario == Init /\ [][ScenarioNext]_vars

(***************************************************************************)
(* Runs in which the periodic hook keeps firing.  From setup on,           *)
(* sim.util.Every (lines 127-130) calls hook_periodic once per sampling    *)
(* period for as long as the simulation runs, each time with a later time  *)
(* and a nonzero time_delta: the advancing tick is weakly fair.  Time ends *)
(* at LiveMaxTime, so a branch event is taken only where the horizon       *)
(* leaves room for a tick beyond its window.                               *)
(***************************************************************************)
LiveTimes == {t \in 0..LiveMaxTime : t >= call.time}

\* The state setup (lines 98-132) leaves behind: the hooks are registered.
LiveInit ==
  \E args \in ArgStrings, num_cores \in 0..LiveMaxCores :
    LET cfg == ParseArgs(args)
    IN  /\ pc = "running"
        /\ observation_window = cfg.observation_window
        /\ sampling_period = cfg.sampling_period
        /\ core_analyzers =
             MakeAnalyzers(num_cores, cfg.observation_window, cfg.sampling_period)
        /\ created = [core_id \in 0..(num_cores - 1) |-> <<>>]
        /\ call = [NoCall EXCEPT !.hook = "setup"]
        /\ total_branches = 0
        /\ all_completed_records = <<>>
        /\ state_patterns_file = <<>>
        /\ pattern_stats = <<>>
        /\ analysis_summary_file = <<>>
        /\ raised = None
        /\ rejected = 0
        /\ ticks = 0
        /\ ends = 0

LiveBranch ==
  /\ pc = "running"
  /\ total_branches < MaxBranches
  /\ \E core_id \in 0..LiveMaxCores, ip \in Ips, actual \in BOOLEAN, time \in LiveTimes,
        instruction_count \in InstructionCounts :
       /\ time < LiveMaxTime
       /\ time + observation_window * US < LiveMaxTime
       /\ hook_branch_predictor(core_id, ip, actual, time, instruction_count)

\* A tick that does not move time on, or has time_delta 0 (and is not the last
\* thing the horizon lets happen).
StalledTick ==
  /\ ticks < MaxTicks
  /\ \E time \in LiveTimes, time_delta \in Deltas,
        current_state \in [DOMAIN core_analyzers -> CoreStates] :
       /\ time = call.time \/ (time_delta = 0 /\ time < LiveMaxTime)
       /\ hook_periodic(time, time_delta, current_state)

\* A tick with a later time and a nonzero time_delta.
AdvancingTick ==
  /\ pc = "running"
  /\ \E time \in LiveTimes, current_state \in [DOMAIN core_analyzers -> CoreStates] :
       /\ time > call.time
       /\ hook_periodic(time, 1, current_state)

LiveEnd == ends < MaxEnds /\ hook_sim_end

LiveNext == LiveBranch \/ StalledTick \/ AdvancingTick \/ LiveEnd

SpecLive == LiveInit /\ [][LiveNext]_vars /\ WF_vars(AdvancingTick)

(***************************************************************************)
(* Vocabulary of the properties.                                           *)
(***************************************************************************)
Range(s) == {s[i] : i \in 1..Len(s)}

\* The records tracker c of `analyzers` holds as active and as completed.
ActiveIn(analyzers, c) == Range(DictValues(analyzers[c].active_records))

CompletedIn(analyzers, c) == Range(analyzers[c].completed_records)

\* How often a record with this event id occurs in a sequence of records.
Occurrences(records, event_id) ==
  Cardinality({i \in 1..Len(records) : records[i].event_id = event_id})

ActiveCount(analyzers, c, event_id) ==
  Occurrences(DictValues(analyzers[c].active_records), event_id)

CompletedCount(analyzers, c, event_id) ==
  Occurrences(analyzers[c].completed_records, event_id)

\* The observation window in the simulator's time unit.
WindowInTimeUnits == observation_window * US

LastSample(record) == record.states[Len(record.states)]

NonzeroTickDelivered == call.hook = "hook_periodic" /\ call.time_delta # 0

\* Every completed record closed on its first sample beyond the window, and is
\* in the log once.
CompletedOnFirstSampleBeyondWindow ==
  \A c \in DOMAIN core_analyzers :
    \A d \in CompletedIn(core_analyzers, c) :
      /\ d.states # <<>>
      /\ LastSample(d)[1] > WindowInTimeUnits
      /\ \A j \in 1..(Len(d.states) - 1) : d.states[j][1] <= WindowInTimeUnits
      /\ CompletedCount(core_analyzers, c, d.event_id) = 1

\* No record active after the tick just delivered is beyond its window at that
\* tick's time.
NoActiveBeyondWindowAt(time) ==
  \A c \in DOMAIN core_analyzers :
    \A a \in ActiveIn(core_analyzers, c) :
      ~(time - a.start_time > WindowInTimeUnits)

HasSampleBeyondWindow(record) ==
  \E j \in 1..Len(record.states) : record.states[j][1] > WindowInTimeUnits

RECURSIVE RecordCountFrom(_, _)
RecordCountFrom(analyzers, c) ==
  IF c \notin DOMAIN analyzers THEN 0
  ELSE Len(analyzers[c].active_records) + Len(analyzers[c].completed_records)
         + RecordCountFrom(analyzers, c + 1)

RecordCount(analyzers) == RecordCountFrom(analyzers, 0)

RECURSIVE CreatedFrom(_)
CreatedFrom(c) ==
  IF c \notin DOMAIN created THEN 0 ELSE Len(created[c]) + CreatedFrom(c + 1)

RecordsEverCreated == CreatedFrom(0)

RecordsIn(analyzers, c) == ActiveIn(analyzers, c) \cup CompletedIn(analyzers, c)

IsPrefix(s, t) == Len(s) <= Len(t) /\ \A j \in 1..Len(s) : t[j] = s[j]

RECURSIVE IdsAssignedFrom(_, _)
IdsAssignedFrom(analyzers, c) ==
  IF c \notin DOMAIN analyzers THEN 0
  ELSE (analyzers[c].next_event_id - 1) + IdsAssignedFrom(analyzers, c + 1)

(***************************************************************************)
(* C1: on every core, the k-th branch event delivered to it creates the    *)
(* record with event_id k: the ids assigned are 1..N in delivery order,    *)
(* without gap or repeat, also after earlier records have completed.       *)
(***************************************************************************)
EventIdsCountDeliveries ==
  \A c \in DOMAIN created : \A k \in 1..Len(created[c]) : created[c][k] = k

\* The second record of a core was created after the first had completed: it
\* has no sample, so it missed the tick that closed the first.
IdAssignedAfterCompletion ==
  \E c \in DOMAIN created :
    /\ Len(created[c]) >= 2
    /\ \E d \in CompletedIn(core_analyzers, c) : d.event_id = 1
    /\ \E a \in ActiveIn(core_analyzers, c) : a.event_id = 2 /\ a.states = <<>>

(***************************************************************************)
(* C2: every record ever created on a core is in exactly one of the core's *)
(* active mapping and its completed log, and in the log at most once.      *)
(***************************************************************************)
RecordInExactlyOnePlace ==
  \A c \in DOMAIN created :
    \A k \in 1..Len(created[c]) :
      ActiveCount(core_analyzers, c, created[c][k])
        + CompletedCount(core_analyzers, c, created[c][k]) = 1

ActiveAndCompletedTogether ==
  \E c \in DOMAIN created :
    /\ CompletedIn(core_analyzers, c) # {}
    /\ ActiveIn(core_analyzers, c) # {}
    /\ Len(created[c]) >= 2

(***************************************************************************)
(* C3: a tick with time_delta # 0 appends exactly one sample                *)
(* (tick time - start_time, current state) to every record active on a     *)
(* core, and moves the record to the completed log if and only if that     *)
(* elapsed time is strictly greater than the observation window; the       *)
(* closing sample is the last sample of the completed record.              *)
(***************************************************************************)
TickSamplesThenCloses ==
  [][\A cs \in [DOMAIN core_analyzers -> CoreStates] :
       (call'.time_delta # 0 /\ hook_periodic(call'.time, call'.time_delta, cs)) =>
         \A c \in DOMAIN core_analyzers :
           \A r \in ActiveIn(core_analyzers, c) :
             LET elapsed == call'.time - r.start_time
                 sampled == [r EXCEPT !.states = Append(@, <<elapsed, cs[c]>>)]
             IN  IF elapsed > WindowInTimeUnits
                 THEN /\ sampled \in CompletedIn(core_analyzers', c)
                      /\ ActiveCount(core_analyzers', c, r.event_id) = 0
                      /\ CompletedCount(core_analyzers', c, r.event_id) = 1
                 ELSE /\ sampled \in ActiveIn(core_analyzers', c)
                      /\ ActiveCount(core_analyzers', c, r.event_id) = 1
                      /\ CompletedCount(core_analyzers', c, r.event_id) = 0]_vars

\* One tick closed a record and left another, whose elapsed time equals the
\* window, active.
TickClosedOneKeptOne ==
  /\ NonzeroTickDelivered
  /\ \E c \in DOMAIN core_analyzers :
       /\ \E d \in CompletedIn(core_analyzers, c) :
            LastSample(d)[1] = call.time - d.start_time
       /\ \E a \in ActiveIn(core_analyzers, c) :
            /\ a.states # <<>>
            /\ LastSample(a)[1] = call.time - a.start_time
            /\ LastSample(a)[1] = WindowInTimeUnits

(***************************************************************************)
(* C4: a record is completed exactly once, by the first tick delivered     *)
(* after its creation whose elapsed time exceeds the observation window;   *)
(* no record is still active after such a tick.                            *)
(***************************************************************************)
\* C4, for the ticks with time_delta # 0: such a tick leaves no record active
\* beyond its window, and a completed record closed on its first sample beyond
\* the window.
ClosedByFirstNonzeroTickBeyondWindow ==
  /\ CompletedOnFirstSampleBeyondWindow
  /\ NonzeroTickDelivered => NoActiveBeyondWindowAt(call.time)

\* C4 as stated, for every tick whatever its time_delta, in a run with a
\* positive observation window.
ClosedByFirstTickBeyondWindow ==
  (pc # "constructed" /\ observation_window > 0) =>
    /\ CompletedOnFirstSampleBeyondWindow
    /\ call.hook = "hook_periodic" => NoActiveBeyondWindowAt(call.time)

\* The tick just delivered closed a record that an earlier tick had sampled.
TickClosedSampledRecord ==
  /\ NonzeroTickDelivered
  /\ \E c \in DOMAIN core_analyzers :
       \E d \in CompletedIn(core_analyzers, c) :
         /\ Len(d.states) >= 2
         /\ LastSample(d)[1] = call.time - d.start_time

(***************************************************************************)
(* C5: once a record has a sample whose elapsed time exceeds the window,   *)
(* no later event or tick appends to it, changes it or makes it active     *)
(* again: a completed record is the same in every later state.             *)
(***************************************************************************)
CompletedRecordsFrozen ==
  [][\A c \in DOMAIN core_analyzers :
       /\ \A r \in ActiveIn(core_analyzers, c) \cup CompletedIn(core_analyzers, c) :
            HasSampleBeyondWindow(r) =>
              /\ r \in CompletedIn(core_analyzers', c)
              /\ ActiveCount(core_analyzers', c, r.event_id) = 0
              /\ CompletedCount(core_analyzers', c, r.event_id) = 1
       /\ \A i \in 1..Len(core_analyzers[c].completed_records) :
            /\ i <= Len(core_analyzers'[c].completed_records)
            /\ core_analyzers'[c].completed_records[i]
                 = core_analyzers[c].completed_records[i]]_vars

\* A tick later than the one that closed a record has been delivered.
CompletedRecordPassedByLaterTick ==
  /\ NonzeroTickDelivered
  /\ \E c \in DOMAIN core_analyzers :
       \E d \in CompletedIn(core_analyzers, c) :
         call.time - d.start_time > LastSample(d)[1]

(***************************************************************************)
(* C6: a tick with time_delta = 0 is a no-op on every core, whatever its   *)
(* time: samples, active mappings, completed logs and next_event_id are    *)
(* unchanged.                                                              *)
(***************************************************************************)
ZeroDeltaTickChangesNothing ==
  [][(ticks' = ticks + 1 /\ call'.time_delta = 0) =>
       /\ core_analyzers' = core_analyzers
       /\ total_branches' = total_branches
       /\ all_completed_records' = all_completed_records
       /\ created' = created]_vars

\* A zero-delta tick was delivered at a time beyond the window of an active,
\* already sampled record.
ZeroDeltaTickPastWindow ==
  /\ call.hook = "hook_periodic"
  /\ call.time_delta = 0
  /\ \E c \in DOMAIN core_analyzers :
       \E a \in ActiveIn(core_analyzers, c) :
         /\ a.states # <<>>
         /\ call.time - a.start_time > WindowInTimeUnits

(***************************************************************************)
(* C7: a branch event whose core_id is not a tracker created at setup is   *)
(* dropped without an error: no record is created and no tracker changes.  *)
(***************************************************************************)
UnknownCoreEventDropped ==
  [][(call'.hook = "hook_branch_predictor" /\ call'.core_id \notin DOMAIN created) =>
       /\ core_analyzers' = core_analyzers
       /\ RecordCount(core_analyzers') = RecordCount(core_analyzers)
       /\ created' = created
       /\ raised' = None
       /\ pc' = "running"]_vars

\* An event on an unknown core was delivered to a run that has trackers and
\* records.
UnknownCoreEventDelivered ==
  /\ call.hook = "hook_branch_predictor"
  /\ call.core_id \notin DOMAIN created
  /\ DOMAIN created # {}
  /\ RecordCount(core_analyzers) > 0

(***************************************************************************)
(* C8: the global branch counter is at least the number of records ever    *)
(* created, and equals it exactly when no branch event named an unknown    *)
(* core.                                                                   *)
(***************************************************************************)
BranchCounterCoversRecords ==
  /\ total_branches >= RecordsEverCreated
  /\ RecordsEverCreated = RecordCount(core_analyzers)
  /\ (total_branches = RecordsEverCreated) <=> (rejected = 0)

DroppedAndRecordedEvents == rejected > 0 /\ RecordsEverCreated > 0

(***************************************************************************)
(* C9: two windows that overlap on a core each get one sample from every   *)
(* nonzero-delta tick delivered while both are active, with the same state *)
(* and their own elapsed times; closing the first neither skips nor        *)
(* alters a sample of the second, on that tick or later.                   *)
(***************************************************************************)
OverlappingWindowsIndependent ==
  [][/\ \A cs \in [DOMAIN core_analyzers -> CoreStates] :
          (call'.time_delta # 0 /\ hook_periodic(call'.time, call'.time_delta, cs)) =>
            \A c \in DOMAIN core_analyzers :
              \A r1, r2 \in ActiveIn(core_analyzers, c) :
                r1.event_id < r2.event_id =>
                  \E n1, n2 \in RecordsIn(core_analyzers', c) :
                    /\ n1.event_id = r1.event_id
                    /\ n2.event_id = r2.event_id
                    /\ n1.states =
                         Append(r1.states, <<call'.time - r1.start_time, cs[c]>>)
                    /\ n2.states =
                         Append(r2.states, <<call'.time - r2.start_time, cs[c]>>)
     /\ \A c \in DOMAIN core_analyzers :
          \A r \in RecordsIn(core_analyzers, c) :
            \E n \in RecordsIn(core_analyzers', c) :
              n.event_id = r.event_id /\ IsPrefix(r.states, n.states)]_vars

\* Two ticks sampled both of two overlapping windows; the second tick closed
\* the first window and left the second active.
OverlapClosedFirstKeptSecond ==
  \E c \in DOMAIN core_analyzers :
    \E d \in CompletedIn(core_analyzers, c), a \in ActiveIn(core_analyzers, c) :
      /\ d.event_id < a.event_id
      /\ Len(d.states) >= 2
      /\ Len(a.states) = Len(d.states)
      /\ \A j \in 1..Len(d.states) :
           d.start_time + d.states[j][1] = a.start_time + a.states[j][1]

(***************************************************************************)
(* C10: the combined sequence built at finalization holds every record     *)
(* ever created on every core exactly once, completed or still active: its *)
(* length is the sum over the cores of next_event_id - 1, no               *)
(* (core_id, event_id) pair occurs twice, and a record still active appears *)
(* with the samples it has so far.                                         *)
(***************************************************************************)
CombinedSequenceHoldsEveryRecord ==
  pc = "ended" =>
    /\ Len(all_completed_records) = IdsAssignedFrom(core_analyzers, 0)
    /\ \A i, j \in 1..Len(all_completed_records) :
         (/\ all_completed_records[i].core_id = all_completed_records[j].core_id
          /\ all_completed_records[i].event_id = all_completed_records[j].event_id)
           => i = j
    /\ \A c \in DOMAIN created :
         \A k \in 1..Len(created[c]) :
           \E i \in 1..Len(all_completed_records) :
             /\ all_completed_records[i].core_id = c
             /\ all_completed_records[i].event_id = created[c][k]
    /\ \A c \in DOMAIN core_analyzers :
         RecordsIn(core_analyzers, c) \subseteq Range(all_completed_records)

\* The run ended with a completed record and with a sampled record still active.
EndedWithActiveRecord ==
  /\ pc = "ended"
  /\ \E c \in DOMAIN core_analyzers : CompletedIn(core_analyzers, c) # {}
  /\ \E c \in DOMAIN core_analyzers :
       \E a \in ActiveIn(core_analyzers, c) : a.states # <<>>

(***************************************************************************)
(* C11: finalization only reads tracker state: every core's active         *)
(* mapping, completed log, next_event_id and samples are after it what     *)
(* they were before, and a second call with no event or tick in between    *)
(* yields the same raw-record dataset and the same summary statistics.     *)
(***************************************************************************)
FinalizeOnlyReads ==
  [][ends' = ends + 1 =>
       /\ core_analyzers' = core_analyzers
       /\ total_branches' = total_branches
       /\ ends >= 1 =>
            /\ all_completed_records' = all_completed_records
            /\ state_patterns_file' = state_patterns_file
            /\ pattern_stats' = pattern_stats
            /\ analysis_summary_file' = analysis_summary_file
            /\ raised' = raised]_vars

\* hook_sim_end ran twice on a run with a completed record, a sampled active
\* record and a summary row.
FinalizedTwice ==
  /\ ends = 2
  /\ analysis_summary_file # <<>>
  /\ \E c \in DOMAIN core_analyzers : CompletedIn(core_analyzers, c) # {}
  /\ \E c \in DOMAIN core_analyzers :
       \E a \in ActiveIn(core_analyzers, c) : a.states # <<>>

(***************************************************************************)
(* C12: the summary has an entry for an ip if and only if some record with *)
(* that ip has an IDLE sample; its count is the number of such records,    *)
(* its idle_positions the multiset of the 0-based sample indices at which  *)
(* they are IDLE, its branch_taken_count the number of them with           *)
(* branch_taken true.  A record with no IDLE sample changes none of these. *)
(***************************************************************************)
SummaryCountsIdleRecords ==
  pc = "ended" =>
    LET recs == all_completed_records
        IdleAt(i, p) == p < Len(recs[i].states) /\ recs[i].states[p + 1][2] = IDLE
        WithIdle(ip) ==
          {i \in 1..Len(recs) :
             recs[i].ip = ip /\ \E p \in 0..(Len(recs[i].states) - 1) : IdleAt(i, p)}
        RecordIps == {recs[i].ip : i \in 1..Len(recs)}
    IN  /\ \A k \in 1..Len(pattern_stats) :
             /\ \E ip \in RecordIps : pattern_stats[k].key = Hex(ip)
             /\ \A m \in 1..Len(pattern_stats) :
                  pattern_stats[m].key = pattern_stats[k].key => m = k
        /\ \A ip \in RecordIps :
             /\ DictHas(pattern_stats, Hex(ip)) <=> WithIdle(ip) # {}
             /\ WithIdle(ip) # {} =>
                  LET entry == DictGet(pattern_stats, Hex(ip))
                  IN  /\ entry.count = Cardinality(WithIdle(ip))
                      /\ entry.branch_taken_count =
                           Cardinality({i \in WithIdle(ip) : recs[i].branch_taken})
                      /\ \A k \in 1..Len(entry.idle_positions) :
                           entry.idle_positions[k] >= 0
                      /\ \A p \in 0..MaxSamples + MaxTicks :
                           Cardinality({k \in 1..Len(entry.idle_positions) :
                                          entry.idle_positions[k] = p})
                             = Cardinality({i \in WithIdle(ip) : IdleAt(i, p)})
                      /\ \A k \in 1..Len(entry.idle_positions) :
                           entry.idle_positions[k] <= MaxSamples + MaxTicks

\* An ip has an entry made by one record, IDLE at its second sample, while
\* another record of the same ip has samples but no IDLE one.
EntryBesideRecordWithoutIdle ==
  /\ pc = "ended"
  /\ \E i, j \in 1..Len(all_completed_records) :
       LET with    == all_completed_records[i]
           without == all_completed_records[j]
       IN  /\ with.ip = without.ip
           /\ Len(with.states) >= 2
           /\ with.states[2][2] = IDLE
           /\ without.states # <<>>
           /\ \A p \in 1..Len(without.states) : without.states[p][2] # IDLE
           /\ DictHas(pattern_stats, Hex(with.ip))
           /\ DictGet(pattern_stats, Hex(with.ip)).count = 1

(***************************************************************************)
(* C13: window 100, period 1, one core, one branch event at time 0, then   *)
(* 150 IDLE ticks one microsecond apart: the record closes on the tick     *)
(* with elapsed time 101 us and holds exactly 101 samples; the summary     *)
(* entry of its ip has count 1, idle positions 0..100 (average 50),        *)
(* idle_time_percent 100 * 101 / (1 * 100) = 101 and branch_taken_ratio 1  *)
(* if branch_taken was true, 0 otherwise.                                  *)
(***************************************************************************)
ScenarioClosesAt101 ==
  total_branches = 1 =>
    /\ observation_window = 100 /\ sampling_period = 1
    /\ DOMAIN core_analyzers = {0}
    /\ ticks <= 100 =>
         /\ core_analyzers[0].completed_records = <<>>
         /\ \E a \in ActiveIn(core_analyzers, 0) :
              ActiveIn(core_analyzers, 0) = {a} /\ Len(a.states) = ticks
    /\ ticks >= 101 =>
         /\ core_analyzers[0].active_records = <<>>
         /\ Len(core_analyzers[0].completed_records) = 1
         /\ LET record == core_analyzers[0].completed_records[1]
            IN  /\ Len(record.states) = 101
                /\ \A j \in 1..101 : record.states[j] = <<j * US, IDLE>>
    /\ pc = "ended" =>
         /\ raised = None
         /\ Len(all_completed_records) = 1
         /\ Len(pattern_stats) = 1
         /\ Len(analysis_summary_file) = 1
         /\ LET record == all_completed_records[1]
                entry  == pattern_stats[1]
                row    == analysis_summary_file[1]
            IN  /\ entry.key = Hex(record.ip)
                /\ entry.value.count = 1
                /\ entry.value.idle_positions = [k \in 1..101 |-> k - 1]
                /\ row.ip = Hex(record.ip)
                /\ row.count = 1
                /\ row.avg_position.den = 101
                /\ row.avg_position.num = 50 * row.avg_position.den
                /\ row.idle_percentage.den = 1 * 100
                /\ row.idle_percentage.num = 100 * 101
                /\ row.idle_percentage.num = 101 * row.idle_percentage.den
                /\ row.branch_taken_ratio.den = 1
                /\ row.branch_taken_ratio.num = IF record.branch_taken THEN 1 ELSE 0

\* The run has ended after all 150 ticks, with the summary row written.
ScenarioEnded ==
  /\ pc = "ended"
  /\ ticks = ScenarioTicks
  /\ total_branches = 1
  /\ analysis_summary_file # <<>>
  /\ all_completed_records[1].branch_taken

(***************************************************************************)
(* C14: a configuration with a non-positive observation_window or          *)
(* sampling_period (or a non-positive core count) is rejected at setup:    *)
(* setup aborts, no tracker is created and no branch event or tick is ever *)
(* processed under such a configuration.                                   *)
(***************************************************************************)
NonPositiveConfiguration ==
  /\ pc # "constructed"
  /\ \/ observation_window <= 0
     \/ sampling_period <= 0
     \/ DOMAIN core_analyzers = {}

NonPositiveConfigurationRejected ==
  NonPositiveConfiguration =>
    /\ pc \notin {"running", "ended"}
    /\ core_analyzers = <<>>
    /\ total_branches = 0
    /\ ticks = 0
    /\ ends = 0

(***************************************************************************)
(* C15, as the code has it: with a negative observation_window every       *)
(* window closes on the first nonzero-delta tick delivered to its core     *)
(* after it was opened, also when that tick's time equals the record's     *)
(* start_time, so every completed record has exactly one sample.  With     *)
(* observation_window zero a window closes on the first nonzero-delta tick *)
(* whose time is strictly later than the record's start_time: the ticks at *)
(* start_time itself add samples with elapsed time 0 and leave it open.    *)
(***************************************************************************)
NonPositiveWindowRunning == pc # "constructed" /\ observation_window <= 0

NonPositiveWindowCloses ==
  NonPositiveWindowRunning =>
    \A c \in DOMAIN core_analyzers :
      /\ \A a \in ActiveIn(core_analyzers, c) :
           /\ observation_window < 0 => a.states = <<>>
           /\ \A j \in 1..Len(a.states) : a.states[j][1] = 0
           /\ NonzeroTickDelivered =>
                observation_window = 0 /\ a.start_time = call.time
      /\ \A d \in CompletedIn(core_analyzers, c) :
           /\ d.states # <<>>
           /\ observation_window < 0 => Len(d.states) = 1
           /\ observation_window = 0 => LastSample(d)[1] > 0
           /\ \A j \in 1..(Len(d.states) - 1) : d.states[j][1] = 0

\* Window zero: a record sampled at its own start_time and closed by a later tick.
ZeroWindowRecordWithTwoSamples ==
  /\ pc # "constructed"
  /\ observation_window = 0
  /\ \E c \in DOMAIN core_analyzers :
       \E d \in CompletedIn(core_analyzers, c) :
         Len(d.states) = 2 /\ d.states[1][1] = 0

\* C15 as claimed: with a zero or negative window the first nonzero-delta tick
\* closes every open window, and every completed record has exactly one sample.
NonPositiveWindowClosesOnFirstTick ==
  NonPositiveWindowRunning =>
    \A c \in DOMAIN core_analyzers :
      /\ NonzeroTickDelivered => core_analyzers[c].active_records = <<>>
      /\ \A d \in CompletedIn(core_analyzers, c) : Len(d.states) = 1

(***************************************************************************)
(* C16: with ticks and branch events delivered in non-decreasing time      *)
(* order, a record's samples only ever grow by appending at the end (the   *)
(* earlier sequence is a prefix of the later one), its elapsed times are   *)
(* non-decreasing along the sequence, and its event_id, core_id, ip,       *)
(* branch_taken, start_time and instruction_count never change.            *)
(***************************************************************************)
ElapsedTimesNonDecreasing(record) ==
  \A j \in 1..(Len(record.states) - 1) : record.states[j][1] <= record.states[j + 1][1]

SamplesAppendOnly ==
  [][\A c \in DOMAIN core_analyzers :
       /\ c \in DOMAIN core_analyzers'
       /\ \A r \in RecordsIn(core_analyzers, c) :
            \E later \in RecordsIn(core_analyzers', c) :
              /\ later.event_id = r.event_id
              /\ later.core_id = r.core_id
              /\ later.ip = r.ip
              /\ later.branch_taken = r.branch_taken
              /\ later.start_time = r.start_time
              /\ later.instruction_count = r.instruction_count
              /\ IsPrefix(r.states, later.states)
              /\ ElapsedTimesNonDecreasing(later)]_vars

\* A record with three samples taken at two different times.
RecordSampledThrice ==
  \E c \in DOMAIN core_analyzers :
    \E r \in RecordsIn(core_analyzers, c) :
      /\ Len(r.states) = 3
      /\ r.states[1][1] < r.states[3][1]

(***************************************************************************)
(* C17: trackers of different cores share no mutable state.  A branch      *)
(* event on core c changes only core c's active mapping and next_event_id  *)
(* (and the global branch counter) and leaves every other core's active    *)
(* mapping, completed log, next_event_id and records unchanged; the sample *)
(* a tick appends on core c carries the state of core c, not of another    *)
(* core.                                                                   *)
(***************************************************************************)
TrackersShareNoState ==
  [][/\ call'.hook = "hook_branch_predictor" =>
          \A c \in DOMAIN core_analyzers :
            IF c = call'.core_id
            THEN /\ total_branches' = total_branches + 1
                 /\ core_analyzers'[c].completed_records =
                      core_analyzers[c].completed_records
                 /\ core_analyzers'[c].next_event_id =
                      core_analyzers[c].next_event_id + 1
                 /\ IsPrefix(core_analyzers[c].active_records,
                             core_analyzers'[c].active_records)
                 /\ Len(core_analyzers'[c].active_records) =
                      Len(core_analyzers[c].active_records) + 1
                 /\ core_analyzers'[c].core_id = c
                 /\ core_analyzers'[c].observation_window =
                      core_analyzers[c].observation_window
                 /\ core_analyzers'[c].sampling_period =
                      core_analyzers[c].sampling_period
            ELSE core_analyzers'[c] = core_analyzers[c]
     /\ \A cs \in [DOMAIN core_analyzers -> CoreStates] :
          (call'.time_delta # 0 /\ hook_periodic(call'.time, call'.time_delta, cs)) =>
            \A c \in DOMAIN core_analyzers :
              /\ \A r \in ActiveIn(core_analyzers, c) :
                   \E later \in RecordsIn(core_analyzers', c) :
                     /\ later.event_id = r.event_id
                     /\ Len(later.states) = Len(r.states) + 1
                     /\ LastSample(later)[2] = cs[c]
              /\ \A later \in RecordsIn(core_analyzers', c) : later.core_id = c]_vars

\* One tick sampled a record on each of two cores, and the two samples carry
\* different states.
TickSampledTwoCoresDifferently ==
  /\ NonzeroTickDelivered
  /\ \E c, d \in DOMAIN core_analyzers :
       /\ c # d
       /\ \E r \in RecordsIn(core_analyzers, c), q \in RecordsIn(core_analyzers, d) :
            /\ r.states # <<>> /\ q.states # <<>>
            /\ LastSample(r)[1] = call.time - r.start_time
            /\ LastSample(q)[1] = call.time - q.start_time
            /\ LastSample(r)[2] # LastSample(q)[2]

(***************************************************************************)
(* C18: with events and ticks delivered in non-decreasing time order, each *)
(* core's completed log is in strictly increasing event_id order and every *)
(* active record of the core has an event_id greater than every completed  *)
(* one, so the combined sequence built at finalization is ordered          *)
(* core-major and, within a core, by event_id ascending.                   *)
(***************************************************************************)
CombinedSequenceInCreationOrder ==
  /\ \A c \in DOMAIN core_analyzers :
       LET log == core_analyzers[c].completed_records
       IN  /\ \A i, j \in 1..Len(log) : i < j => log[i].event_id < log[j].event_id
           /\ \A a \in ActiveIn(core_analyzers, c), d \in CompletedIn(core_analyzers, c) :
                a.event_id > d.event_id
  /\ pc = "ended" =>
       \A i, j \in 1..Len(all_completed_records) :
         i < j =>
           LET first  == all_completed_records[i]
               second == all_completed_records[j]
           IN  \/ first.core_id < second.core_id
               \/ /\ first.core_id = second.core_id
                  /\ first.event_id < second.event_id

\* The run ended with a core holding a completed and an active record.
EndedWithCompletedBeforeActive ==
  /\ pc = "ended"
  /\ Len(all_completed_records) = 2
  /\ \E c \in DOMAIN core_analyzers :
       /\ CompletedIn(core_analyzers, c) # {}
       /\ ActiveIn(core_analyzers, c) # {}

(***************************************************************************)
(* C19: in every reachable state every sample of an active record has an   *)
(* elapsed time less than or equal to the observation window; every record *)
(* in a completed log has at least one sample, its last sample has an      *)
(* elapsed time strictly greater than the observation window and, with     *)
(* non-decreasing time, none of its earlier samples does.                  *)
(***************************************************************************)
SamplesWithinWindowUntilClosed ==
  \A c \in DOMAIN core_analyzers :
    /\ \A a \in ActiveIn(core_analyzers, c) :
         \A j \in 1..Len(a.states) : a.states[j][1] <= observation_window * US
    /\ \A d \in CompletedIn(core_analyzers, c) :
         /\ Len(d.states) >= 1
         /\ d.states[Len(d.states)][1] > observation_window * US
         /\ \A j \in 1..(Len(d.states) - 1) : d.states[j][1] <= observation_window * US

\* Under a positive window: a completed record with an earlier sample inside
\* the window, and an active record whose sample lies on the window's edge.
SampledInsideAndBeyondWindow ==
  /\ pc = "running"
  /\ observation_window > 0
  /\ \E c \in DOMAIN core_analyzers :
       \E d \in CompletedIn(core_analyzers, c) :
         Len(d.states) >= 2 /\ d.states[1][1] > 0
  /\ \E c \in DOMAIN core_analyzers :
       \E a \in ActiveIn(core_analyzers, c) :
         \E j \in 1..Len(a.states) : a.states[j][1] = observation_window * US

(***************************************************************************)
(* C20: if nonzero-delta ticks keep being delivered with strictly          *)
(* increasing time, every record opened on a known core is eventually      *)
(* moved to the completed log (unless the simulation ends first, after     *)
(* which no tick is delivered); a record stays active forever only if no   *)
(* nonzero-delta tick with a time beyond start_time plus the observation   *)
(* window is ever delivered: after such a tick it is not active.           *)
(***************************************************************************)
EveryOpenedRecordCloses ==
  /\ \A c \in 0..(LiveMaxCores - 1), event_id \in 1..MaxBranches :
       (c \in DOMAIN core_analyzers /\ ActiveCount(core_analyzers, c, event_id) = 1)
         ~> \/ c \in DOMAIN core_analyzers /\ CompletedCount(core_analyzers, c, event_id) = 1
            \/ pc = "ended"
  /\ [](NonzeroTickDelivered =>
          \A c \in DOMAIN core_analyzers :
            \A a \in ActiveIn(core_analyzers, c) :
              call.time <= a.start_time + observation_window * US)

\* An advancing tick beyond the window of a record has just closed it, while
\* the simulation runs on.
AdvancingTickClosedRecord ==
  /\ pc = "running"
  /\ NonzeroTickDelivered
  /\ observation_window = 1
  /\ \E c \in DOMAIN core_analyzers :
       \E d \in CompletedIn(core_analyzers, c) :
         /\ call.time > d.start_time + observation_window * US
         /\ d.states[Len(d.states)][1] = call.time - d.start_time
         /\ Len(d.states) >= 2

====
